---- MODULE Spec2Model ----
(***************************************************************************)
(* A model of the retrieval subsystem of repo-explainer-agent.             *)
(*                                                                         *)
(*   - the Chunker, chunk_by_lines of src/src/indexer.py, run one loop     *)
(*     iteration per step (ChunkSpec, ChunkFairSpec);                      *)
(*   - the Streamlit session of src/app.py: one action per button handler, *)
(*     each a whole run of the script (SessionSpec);                       *)
(*   - build_faiss_index with its walk of the repository, one directory    *)
(*     and one file per step (BuildSpec);                                  *)
(*   - the functions of src/src/rag.py and src/src/llm_providers.py, each  *)
(*     applied once to arguments drawn from bounded sets (CallSpec).       *)
(*                                                                         *)
(* Text is modelled at the granularity the code looks at it: a file is the *)
(* sequence of its lines (the result of str.splitlines), a line is blank   *)
(* ("" or " ") or not; questions, keys and provider replies are sequences  *)
(* of atoms (characters or tokens).                                        *)
(***************************************************************************)
EXTENDS Integers, Sequences, FiniteSets, TLC

VARIABLES
    \* ---- chunk_by_lines (src/src/indexer.py:30-46)
    lines,            \* text.splitlines()
    lines_per_chunk,  \* parameter
    overlap,          \* parameter
    i,                \* the cursor
    start,            \* first line (0-indexed) of the window last cut
    end,              \* one past its last line
    chunks,           \* the list being built
    pc,               \* "loop": at the while test; "body": in the loop body;
                      \* "done": returned; "capped": the list outgrew
                      \* MaxChunks; "idle": no call running
    \* ---- the Streamlit session (src/app.py)
    session_state,    \* st.session_state: repo_root, index, metas, model, tree
    run,              \* the last run of the script: the button clicked, the
                      \* widget values its handler read, the calls it made,
                      \* what it put on the page, the buttons it rendered,
                      \* the session state it started from
    \* ---- one call of build_faiss_index (src/src/indexer.py:49-92)
    build,            \* its frame: the repository on disk, the directories
                      \* os.walk still has to visit and has visited,
                      \* code_files, metas, texts, and what it returned
    \* ---- one call of a function of src/src/rag.py
    call              \* the function, its arguments and what it returned

chunkVars == <<lines, lines_per_chunk, overlap, i, start, end, chunks, pc>>

sessionVars == <<session_state, run>>

buildVars == <<build>>

callVars == <<call>>

vars == <<lines, lines_per_chunk, overlap, i, start, end, chunks, pc, session_state, run,
          build, call>>

----------------------------------------------------------------------------
(* Bounds of the model *)

MaxLines == 4

MaxWindow == 3

MaxOverlap == 3

MaxChunks == 6

(* Defaults of chunk_by_lines *)

DefaultLinesPerChunk == 200

DefaultOverlap == 30

----------------------------------------------------------------------------
(* Generic helpers *)

Min(a, b) == IF a < b THEN a ELSE b

Max(a, b) == IF a > b THEN a ELSE b

SeqsUpTo(S, k) == UNION {[1..m -> S] : m \in 0..k}

----------------------------------------------------------------------------
(* Lines and str.strip at line granularity *)

LineVals == {"", " ", "a"}

\* a line that str.strip() reduces to the empty string
IsBlankLine(l) == l \in {"", " "}

\* "\n".join(ls).strip(): the leading and trailing blank lines fall away
\* (the result is empty iff every line is blank)
StripLines(ls) ==
    LET nb == {k \in 1..Len(ls) : ~IsBlankLine(ls[k])}
    IN  IF nb = {} THEN <<>>
        ELSE LET lo == CHOOSE k \in nb : \A m \in nb : k <= m
                 hi == CHOOSE k \in nb : \A m \in nb : k >= m
             IN  SubSeq(ls, lo, hi)

\* ls[from:to] of Python for from, to >= 0 (0-indexed, `to` excluded, both
\* clamped to the length)
Slice(ls, from, to) == SubSeq(ls, Min(from, Len(ls)) + 1, Min(to, Len(ls)))

----------------------------------------------------------------------------
(* chunk_by_lines: the body of one iteration of `while i < n`              *)

\* LoopBody with a slip: start_line left 0-indexed
LoopBody_ZeroIndexed(ls, W, V, cur, acc) ==
    LET n          == Len(ls)
        s          == cur
        e          == Min(cur + W, n)
        chunk_text == StripLines(Slice(ls, s, e))
        appended   == IF chunk_text # <<>>
                      THEN Append(acc, [start_line |-> s,
                                        end_line   |-> e,
                                        text       |-> chunk_text])
                      ELSE acc
        next       == e - V
    IN  [ start  |-> s,
          end    |-> e,
          chunks |-> appended,
          i      |-> IF next < 0 THEN 0 ELSE next,
          brk    |-> (e = n) ]

\* LoopBody with a slip: the cursor advanced past the overlap (end + overlap)
LoopBody_AddOverlap(ls, W, V, cur, acc) ==
    LET n          == Len(ls)
        s          == cur
        e          == Min(cur + W, n)
        chunk_text == StripLines(Slice(ls, s, e))
        appended   == IF chunk_text # <<>>
                      THEN Append(acc, [start_line |-> s + 1,
                                        end_line   |-> e,
                                        text       |-> chunk_text])
                      ELSE acc
        next       == e + V
    IN  [ start  |-> s,
          end    |-> e,
          chunks |-> appended,
          i      |-> IF next < 0 THEN 0 ELSE next,
          brk    |-> (e = n) ]

\* LoopBody with a slip: the window's end not clamped to the line count
LoopBody_NoClamp(ls, W, V, cur, acc) ==
    LET n          == Len(ls)
        s          == cur
        e          == cur + W
        chunk_text == StripLines(Slice(ls, s, e))
        appended   == IF chunk_text # <<>>
                      THEN Append(acc, [start_line |-> s + 1,
                                        end_line   |-> e,
                                        text       |-> chunk_text])
                      ELSE acc
        next       == e - V
    IN  [ start  |-> s,
          end    |-> e,
          chunks |-> appended,
          i      |-> IF next < 0 THEN 0 ELSE next,
          brk    |-> (e = n) ]

\* LoopBody with a slip: the cursor set one line before end - overlap
LoopBody_StepShort(ls, W, V, cur, acc) ==
    LET n          == Len(ls)
        s          == cur
        e          == Min(cur + W, n)
        chunk_text == StripLines(Slice(ls, s, e))
        appended   == IF chunk_text # <<>>
                      THEN Append(acc, [start_line |-> s + 1,
                                        end_line   |-> e,
                                        text       |-> chunk_text])
                      ELSE acc
        next       == e - V - 1
    IN  [ start  |-> s,
          end    |-> e,
          chunks |-> appended,
          i      |-> IF next < 0 THEN 0 ELSE next,
          brk    |-> (e = n) ]

LoopBody(ls, W, V, cur, acc) ==
    LET n          == Len(ls)
        s          == cur
        e          == Min(cur + W, n)
        chunk_text == StripLines(Slice(ls, s, e))
        appended   == IF chunk_text # <<>>
                      THEN Append(acc, [start_line |-> s + 1,   \* 1-indexed lines
                                        end_line   |-> e,
                                        text       |-> chunk_text])
                      ELSE acc
        next       == e - V
    IN  [ start  |-> s,
          end    |-> e,
          chunks |-> appended,
          i      |-> IF next < 0 THEN 0 ELSE next,
          brk    |-> (e = n) ]

\* the number of times the body of the loop runs, counted up to one more
\* than the number of lines
RECURSIVE LoopIterations(_, _, _, _, _, _)
LoopIterations(ls, W, V, cur, acc, done) ==
    IF ~(cur < Len(ls)) \/ done > Len(ls) THEN done
    ELSE LET r == LoopBody(ls, W, V, cur, acc)
         IN  IF r.brk THEN done + 1
             ELSE LoopIterations(ls, W, V, r.i, r.chunks, done + 1)

\* the whole call, for configurations on which the loop ends
RECURSIVE ChunkLoop(_, _, _, _, _)
ChunkLoop(ls, W, V, cur, acc) ==
    IF ~(cur < Len(ls)) THEN acc
    ELSE LET r == LoopBody(ls, W, V, cur, acc)
         IN  IF r.brk THEN r.chunks ELSE ChunkLoop(ls, W, V, r.i, r.chunks)

chunk_by_lines(ls, W, V) == ChunkLoop(ls, W, V, 0, <<>>)

----------------------------------------------------------------------------
\* a local variable not yet assigned
Unbound == -1

\* the spec's end-to-end scenario: one file of 250 non-blank lines
ScenarioLines == [k \in 1..250 |-> "a"]

----------------------------------------------------------------------------
(* Strings as sequences of atoms (characters or tokens)                    *)

Whitespace == {" ", "\n"}

\* str.strip()
Strip(t) ==
    LET nb == {k \in 1..Len(t) : t[k] \notin Whitespace}
    IN  IF nb = {} THEN <<>>
        ELSE LET lo == CHOOSE k \in nb : \A m \in nb : k <= m
                 hi == CHOOSE k \in nb : \A m \in nb : k >= m
             IN  SubSeq(t, lo, hi)

\* str.lower() on the atoms the model uses
LowerAtom(a) ==
    CASE a = "E" -> "e"
      [] a = "S" -> "s"
      [] a = ".PNG" -> ".png"
      [] OTHER -> a

Lower(t) == [k \in 1..Len(t) |-> LowerAtom(t[k])]

\* p in t
Contains(t, p) == \E k \in 0..(Len(t) - Len(p)) : SubSeq(t, k + 1, k + Len(p)) = p

\* t.startswith(p)
StartsWith(t, p) == Len(t) >= Len(p) /\ SubSeq(t, 1, Len(p)) = p

\* a replace that leaves the text as it is
Remove_Nothing(t, p) == t

\* t.replace(p, "") for a non-empty p
RECURSIVE Remove(_, _)
Remove(t, p) ==
    IF t = <<>> THEN <<>>
    ELSE IF StartsWith(t, p) THEN Remove(SubSeq(t, Len(p) + 1, Len(t)), p)
    ELSE <<t[1]>> \o Remove(Tail(t), p)

\* Python's None, and a value that is not None
None == [none |-> TRUE]

\* no call of build_faiss_index is running
NoBuild == [pc |-> "idle"]

\* no call of retrieve or format_citations is running
NoCall == [fn |-> "(none)"]

Some(v) == [val |-> v]

----------------------------------------------------------------------------
(* The repositories a session can analyze.  A file is                      *)
(*   dirs: the directories from the root down to it, name: its name as     *)
(*   atoms (the extension last), size in bytes, statable / readable, lines *)

File(ds, nm, sz, ls) ==
    [dirs |-> ds, name |-> nm, size |-> sz, statable |-> TRUE, readable |-> TRUE,
     lines |-> ls]

RepoRoots == {"data/repos/code", "data/repos/lib", "data/repos/blank", "data/repos/empty"}

\* seven one-chunk files, more than one top-k of chunks
LibStems == <<"1", "2", "3", "4", "5", "6", "7">>

LibLines == << <<"a">>, <<"a", "a">>, <<"a">>, <<"a", "", "a">>, <<"a", "a", "a">>, <<"a">>, <<"a", "a", "a", "a">> >>

RepoFiles(root) ==
    CASE root = "data/repos/code" ->
            << File(<<>>, <<"main", ".py">>, 40, <<"a", "", "a">>),
               File(<<>>, <<"requirements", ".txt">>, 10, <<"a">>),
               File(<<>>, <<"logo", ".PNG">>, 900, <<"a">>),
               File(<<"node_modules", "x">>, <<"x", ".js">>, 30, <<"a">>),
               File(<<"src">>, <<"util", ".py">>, 20, <<"a", "a">>) >>
      [] root = "data/repos/lib" ->
            [k \in 1..7 |-> File(<<"pkg">>, <<"m", LibStems[k], ".py">>, 20, LibLines[k])]
      [] root = "data/repos/blank" ->
            << File(<<>>, <<"README", ".md">>, 3, <<" ", "">>) >>
      [] OTHER -> << >>

\* src/src/file_filter.py
IGNORE_EXTENSIONS ==
    {".png", ".jpg", ".jpeg", ".gif", ".webp", ".svg", ".ico",
     ".exe", ".dll", ".so", ".bin",
     ".zip", ".tar", ".gz", ".7z",
     ".pdf", ".lock"}

IGNORE_FOLDERS ==
    {".git", "node_modules", "dist", "build", ".venv", "__pycache__",
     ".idea", ".vscode", ".next", "out", "public"}

\* a filter that tests folder names alone
should_ignore_FoldersOnly(name) ==
    Len(name) = 1 /\ name[1] \in IGNORE_FOLDERS

should_ignore(name) ==
    \/ Len(name) = 1 /\ name[1] \in IGNORE_FOLDERS
    \/ name # <<>> /\ LowerAtom(name[Len(name)]) \in IGNORE_EXTENSIONS

\* os.walk with `dirs[:] = [d for d in dirs if not should_ignore(d)]`:
\* a file is reached iff none of its directories is pruned
Walked(f) == \A k \in 1..Len(f.dirs) : ~should_ignore(<<f.dirs[k]>>)

MaxFileSize == 2000000

\* a size test that rejects a file of exactly the ceiling
KeepFile_SizeAtLeast(f) ==
    /\ ~should_ignore(f.name)
    /\ f.statable
    /\ ~(f.size >= MaxFileSize)

\* the body of `for f in files`: the name test, then os.path.getsize in a
\* try whose except skips the file
KeepFile(f) ==
    /\ ~should_ignore(f.name)
    /\ f.statable
    /\ ~(f.size > MaxFileSize)

\* collect_code_files: one file of the walk
IsCodeFile(f) ==
    /\ Walked(f)
    /\ KeepFile(f)

collect_code_files(repo_path) ==
    SelectSeq([k \in 1..Len(RepoFiles(repo_path)) |->
                  [root |-> repo_path, file |-> RepoFiles(repo_path)[k]]],
              LAMBDA x : IsCodeFile(x.file))

\* build_file_tree: the dict of the files kept, here the set of their paths
build_file_tree(base_path) ==
    {<<f.dirs, f.name>> : f \in {RepoFiles(base_path)[k] : k \in
        {m \in 1..Len(RepoFiles(base_path)) :
            Walked(RepoFiles(base_path)[m]) /\ ~should_ignore(RepoFiles(base_path)[m].name)}}}

\* a reader that returns a placeholder for a file it cannot open
read_text_file_Placeholder(x) == IF x.file.readable THEN x.file.lines ELSE <<"?">>

\* read_text_file, as lines (the files of the model are below max_chars)
read_text_file(x) == IF x.file.readable THEN x.file.lines ELSE <<>>

\* clone_repo: the checkout of a URL
clone_repo(url) ==
    CASE url = "https://github.com/u/code" -> "data/repos/code"
      [] url = "https://github.com/u/lib" -> "data/repos/lib"
      [] url = "https://github.com/u/blank" -> "data/repos/blank"
      [] OTHER -> "data/repos/empty"

----------------------------------------------------------------------------
(* The embedder and the vector index (external capabilities)               *)

\* model.encode: a stand-in, the number of non-blank atoms of the text
Embed(t) == Cardinality({k \in 1..Len(t) : t[k] \notin {"", " ", "\n"}})

\* inner product of normalized vectors: larger is closer
Score(u, v) == IF u > v THEN v - u ELSE u - v

\* index.search(q, k): the ids (0-indexed) of the k best vectors, best first,
\* -1 where the index holds fewer than k
RECURSIVE TopIds(_, _, _, _)
TopIds(vectors, q, left, k) ==
    IF k = 0 THEN <<>>
    ELSE IF left = {} THEN <<-1>> \o TopIds(vectors, q, left, k - 1)
    ELSE LET best == CHOOSE j \in left : \A m \in left :
                        \/ Score(q, vectors[j]) > Score(q, vectors[m])
                        \/ Score(q, vectors[j]) = Score(q, vectors[m]) /\ j <= m
         IN  <<best - 1>> \o TopIds(vectors, q, left \ {best}, k - 1)

search(index, q, k) == TopIds(index.vectors, q, DOMAIN index.vectors, k)

----------------------------------------------------------------------------
(* build_faiss_index                                                        *)

ModelName == "all-MiniLM-L6-v2"

\* a loop body that records a chunk for a file it skips
BuildFile_MetaForSkipped(acc, fp) ==
    LET txt == read_text_file(fp)
        cs  == chunk_by_lines(txt, DefaultLinesPerChunk, DefaultOverlap)
        mk(c) == [file_path  |-> [root |-> fp.root, dirs |-> fp.file.dirs,
                                  name |-> fp.file.name],
                  start_line |-> c.start_line,
                  end_line   |-> c.end_line,
                  text       |-> c.text]
    IN  IF StripLines(txt) = <<>>
        THEN [metas |-> Append(acc.metas,
                               mk([start_line |-> 1, end_line |-> Len(txt), text |-> <<>>])),
              texts |-> acc.texts]
        ELSE [metas |-> acc.metas \o [k \in 1..Len(cs) |-> mk(cs[k])],
              texts |-> acc.texts \o [k \in 1..Len(cs) |-> cs[k].text]]

\* the body of `for fp in code_files`: metas and texts are appended in
\* lock-step, a file whose text strips to nothing is skipped
BuildFile(acc, fp) ==
    LET txt == read_text_file(fp)
        cs  == chunk_by_lines(txt, DefaultLinesPerChunk, DefaultOverlap)
    IN  IF StripLines(txt) = <<>>
        THEN acc
        ELSE [metas |-> acc.metas \o
                          [k \in 1..Len(cs) |->
                             [file_path  |-> [root |-> fp.root,
                                              dirs |-> fp.file.dirs,
                                              name |-> fp.file.name],
                              start_line |-> cs[k].start_line,
                              end_line   |-> cs[k].end_line,
                              text       |-> cs[k].text]],
              texts |-> acc.texts \o [k \in 1..Len(cs) |-> cs[k].text]]

\* the loop over code_files
RECURSIVE BuildLoop(_, _)
BuildLoop(code_files, acc) ==
    IF code_files = <<>> THEN acc
    ELSE BuildLoop(Tail(code_files), BuildFile(acc, Head(code_files)))

\* a build that returns an index over whatever it gathered
BuildResult_NoRaise(r) ==
    [raised |-> FALSE,
     index  |-> [vectors |-> [k \in 1..Len(r.texts) |-> Embed(r.texts[k])]],
     metas  |-> r.metas,
     model  |-> ModelName]

\* after the loop: the empty-corpus error, or the embeddings added to a
\* fresh index and the triple returned
BuildResult(r) ==
    IF r.texts = <<>>
    THEN [raised |-> TRUE, error |-> "ValueError: No indexable text found in repo"]
    ELSE [raised |-> FALSE,
          index  |-> [vectors |-> [k \in 1..Len(r.texts) |-> Embed(r.texts[k])]],
          metas  |-> r.metas,
          model  |-> ModelName]

build_faiss_index(repo_path) ==
    BuildResult(BuildLoop(collect_code_files(repo_path), [metas |-> <<>>, texts |-> <<>>]))

----------------------------------------------------------------------------
(* src/src/rag.py                                                           *)

\* metas[int(idx)] of a Python list: a negative index counts from the end
PyIndex(xs, idx) ==
    IF 0 <= idx /\ idx < Len(xs) THEN Some(xs[idx + 1])
    ELSE IF idx < 0 /\ -idx <= Len(xs) THEN Some(xs[Len(xs) + idx + 1])
    ELSE None

\* a retrieve that maps every reported id, the sentinel included
retrieve_NoSentinelTest(question, index, metas, model, top_k) ==
    IF model = None \/ index = None \/ metas = None
    THEN [raised |-> TRUE, error |-> "AttributeError: 'NoneType' object"]
    ELSE LET ids == search(index.val, Embed(question), top_k)
         IN  IF \E k \in 1..Len(ids) : PyIndex(metas.val, ids[k]) = None
             THEN [raised |-> TRUE, error |-> "IndexError: list index out of range"]
             ELSE [raised |-> FALSE,
                   ids    |-> ids,
                   reads  |-> ids,
                   chunks |-> [k \in 1..Len(ids) |-> PyIndex(metas.val, ids[k]).val]]

\* a retrieve that reads metas one position too far
retrieve_OneIndexed(question, index, metas, model, top_k) ==
    IF model = None \/ index = None \/ metas = None
    THEN [raised |-> TRUE, error |-> "AttributeError: 'NoneType' object"]
    ELSE LET ids  == search(index.val, Embed(question), top_k)
             kept == SelectSeq(ids, LAMBDA idx : idx # -1)
         IN  IF \E k \in 1..Len(kept) : PyIndex(metas.val, kept[k] + 1) = None
             THEN [raised |-> TRUE, error |-> "IndexError: list index out of range"]
             ELSE [raised |-> FALSE,
                   ids    |-> ids,
                   reads  |-> [k \in 1..Len(kept) |-> kept[k] + 1],
                   chunks |-> [k \in 1..Len(kept) |-> PyIndex(metas.val, kept[k] + 1).val]]

\* retrieve, called with the session's index, metas and model (None or Some);
\* ids is what the search reported, reads the positions of metas it read
retrieve(question, index, metas, model, top_k) ==
    IF model = None \/ index = None \/ metas = None
    THEN [raised |-> TRUE, error |-> "AttributeError: 'NoneType' object"]
    ELSE LET ids  == search(index.val, Embed(question), top_k)
             kept == SelectSeq(ids, LAMBDA idx : idx # -1)
         IN  IF \E k \in 1..Len(kept) : PyIndex(metas.val, kept[k]) = None
             THEN [raised |-> TRUE, error |-> "IndexError: list index out of range"]
             ELSE [raised |-> FALSE,
                   ids    |-> ids,
                   reads  |-> kept,
                   chunks |-> [k \in 1..Len(kept) |-> PyIndex(metas.val, kept[k]).val]]

\* os.path.relpath(file_path, repo_root), as path segments
RelPath(fp, repo_root) ==
    IF fp.root = repo_root THEN fp.dirs \o <<fp.name>>
    ELSE <<"..", fp.root>> \o fp.dirs \o <<fp.name>>

\* a dedupe that compares with the previous citation alone
RECURSIVE Unique_AdjacentOnly(_, _)
Unique_AdjacentOnly(cs, seen) ==
    IF cs = <<>> THEN <<>>
    ELSE IF Head(cs) \in seen THEN Unique_AdjacentOnly(Tail(cs), seen)
    ELSE <<Head(cs)>> \o Unique_AdjacentOnly(Tail(cs), {Head(cs)})

\* remove duplicates while preserving order
RECURSIVE Unique(_, _)
Unique(cs, seen) ==
    IF cs = <<>> THEN <<>>
    ELSE IF Head(cs) \in seen THEN Unique(Tail(cs), seen)
    ELSE <<Head(cs)>> \o Unique(Tail(cs), seen \cup {Head(cs)})

\* the display string "{rel} (lines {start}-{end})", as its three parts
format_citations(cs, repo_root) ==
    Unique([k \in 1..Len(cs) |->
              [rel |-> RelPath(cs[k].file_path, repo_root),
               start_line |-> cs[k].start_line,
               end_line |-> cs[k].end_line]], {})

----------------------------------------------------------------------------
(* src/src/llm_providers.py and the answer assemblers of src/src/rag.py     *)

API_ERROR_PREFIX == <<"[API_ERROR]">>

OLLAMA_ERROR_PREFIX == <<"[OLLAMA_ERROR]">>

CreditMessage ==
    <<"Your Anthropic credit balance is too low. Please add credits at console.anthropic.com to continue using Claude.">>

\* what client.messages.create can do: return a text, or raise
ClaudeReplies ==
    { [kind |-> "text", text |-> <<"The", " ", "answer">>],
      [kind |-> "BadRequestError",
       msg  |-> <<"Error code: 400 - ", "Your ", "credit balance is too low", " to access the API">>],
      [kind |-> "BadRequestError", msg |-> <<"Error code: 400 - ", "prompt is too long">>],
      [kind |-> "PermissionDeniedError",
       msg  |-> <<"Error code: 403 - ", "Your ", "credit balance is too low">>],
      [kind |-> "APIConnectionError", msg |-> <<"Connection error.">>] }

\* a handler that converts every bad request
ClaudeCall_AnyBadRequest(reply) ==
    IF reply.kind = "text" THEN [raised |-> FALSE, text |-> reply.text, requests |-> 1]
    ELSE IF reply.kind = "BadRequestError"
    THEN [raised |-> FALSE, text |-> API_ERROR_PREFIX \o <<" ">> \o CreditMessage,
          requests |-> 1]
    ELSE [raised |-> TRUE, error |-> reply.kind, requests |-> 1]

\* the try/except around client.messages.create; requests counts the calls
\* of client.messages.create
ClaudeCall(reply) ==
    IF reply.kind = "text" THEN [raised |-> FALSE, text |-> reply.text, requests |-> 1]
    ELSE IF reply.kind = "BadRequestError" /\ Contains(reply.msg, <<"credit balance is too low">>)
    THEN [raised |-> FALSE, text |-> API_ERROR_PREFIX \o <<" ">> \o CreditMessage,
          requests |-> 1]
    ELSE [raised |-> TRUE, error |-> reply.kind, requests |-> 1]

llm_answer(question, cs, api_key, reply) == ClaudeCall(reply)

claude_generate_markdown(prompt, api_key, reply) == ClaudeCall(reply)

claude_generate(prompt, api_key, reply) == ClaudeCall(reply)

\* what requests.post, raise_for_status and response.json can do against the
\* local Ollama server; AttributeError: the body is JSON but not an object
OllamaReplies ==
    { [kind |-> "text", text |-> <<"The", " ", "explainer">>],
      [kind |-> "ConnectionError"],
      [kind |-> "ConnectTimeout"],
      [kind |-> "ReadTimeout"],
      [kind |-> "HTTPError"],
      [kind |-> "AttributeError"] }

\* isinstance(e, cls) in requests.exceptions
IsInstance(kind, cls) ==
    cls \in (CASE kind = "ConnectionError" -> {"ConnectionError", "RequestException"}
               [] kind = "ConnectTimeout" ->
                     {"ConnectTimeout", "ConnectionError", "Timeout", "RequestException"}
               [] kind = "ReadTimeout" -> {"ReadTimeout", "Timeout", "RequestException"}
               [] kind = "HTTPError" -> {"HTTPError", "RequestException"}
               [] OTHER -> {kind})

\* a handler with one message for every failure
ollama_generate_OneMessage(prompt, reply) ==
    IF reply.kind = "text" THEN [raised |-> FALSE, text |-> reply.text, requests |-> 1]
    ELSE IF IsInstance(reply.kind, "RequestException")
    THEN [raised |-> FALSE, requests |-> 1,
          text |-> OLLAMA_ERROR_PREFIX \o <<" ", "Ollama error">>]
    ELSE [raised |-> TRUE, error |-> reply.kind, requests |-> 1]

\* the except clauses are tried in the order of the source
ollama_generate(prompt, reply) ==
    IF reply.kind = "text" THEN [raised |-> FALSE, text |-> reply.text, requests |-> 1]
    ELSE IF IsInstance(reply.kind, "ConnectionError")
    THEN [raised |-> FALSE, requests |-> 1,
          text |-> OLLAMA_ERROR_PREFIX \o <<" ", "Could not connect to Ollama.">>]
    ELSE IF IsInstance(reply.kind, "Timeout")
    THEN [raised |-> FALSE, requests |-> 1,
          text |-> OLLAMA_ERROR_PREFIX \o <<" ", "Ollama request timed out.">>]
    ELSE IF IsInstance(reply.kind, "RequestException")
    THEN [raised |-> FALSE, requests |-> 1,
          text |-> OLLAMA_ERROR_PREFIX \o <<" ", "Ollama error: ", reply.kind>>]
    ELSE [raised |-> TRUE, error |-> reply.kind, requests |-> 1]

Providers == {"Local (Ollama)", "Claude (Anthropic)"}

\* a router that hands every key to the Claude client
generate_markdown_NoKeyTest(provider, prompt, api_key, reply) ==
    IF provider = "Local (Ollama)" THEN ollama_generate(prompt, reply)
    ELSE claude_generate(prompt, api_key, reply)

\* api_key is None (the default) or Some(text); `not api_key` holds for None
\* and for the empty string
generate_markdown(provider, prompt, api_key, reply) ==
    IF provider = "Local (Ollama)" THEN ollama_generate(prompt, reply)
    ELSE IF provider = "Claude (Anthropic)"
    THEN IF api_key = None \/ api_key.val = <<>>
         THEN [raised |-> FALSE, requests |-> 0,
               text |-> API_ERROR_PREFIX \o <<" ", "Claude API key is required for this provider.">>]
         ELSE claude_generate(prompt, api_key.val, reply)
    ELSE [raised |-> FALSE, requests |-> 0,
          text |-> API_ERROR_PREFIX \o <<" ", "Unknown provider: ", provider>>]

\* basic_answer: the fixed template around the question and the snippets
basic_answer(question, cs) ==
    <<"\n", "MVP LOCAL ANSWER (no external LLM):", "\n", "Question: ">> \o question
        \o <<"\n", "Relevant code snippets:", "\n">>

----------------------------------------------------------------------------
(* detect_entrypoints (src/src/entry_points.py), for repositories without  *)
(* package.json and without framework imports: the only ones of the model  *)

Exists(repo_root, nm) ==
    \E k \in 1..Len(RepoFiles(repo_root)) :
        RepoFiles(repo_root)[k].dirs = <<>> /\ RepoFiles(repo_root)[k].name = nm

EntryCandidates ==
    << <<"main", ".py">>, <<"app", ".py">>, <<"server", ".py">>,
       <<"run", ".py">>, <<"wsgi", ".py">>, <<"asgi", ".py">> >>

detect_entrypoints(repo_root) ==
    IF \/ Exists(repo_root, <<"requirements", ".txt">>)
       \/ Exists(repo_root, <<"pyproject", ".toml">>)
       \/ Exists(repo_root, <<"setup", ".py">>)
    THEN LET candidates == SelectSeq(EntryCandidates, LAMBDA c : Exists(repo_root, c))
         IN  [framework    |-> "Python (generic)",
              entry_files  |-> candidates,
              run_commands |-> <<>>,
              notes        |-> IF candidates # <<>>
                               THEN <<"Detected common Python entrypoint filenames.">>
                               ELSE <<"No common Python entrypoint filenames found.">>]
    ELSE [framework    |-> "Unknown",
          entry_files  |-> <<>>,
          run_commands |-> <<>>,
          notes        |-> <<"Could not detect framework reliably.">>]

RECURSIVE BulletLines(_)
BulletLines(items) ==
    IF items = <<>> THEN <<>>
    ELSE <<"\n", "- ">> \o Head(items) \o BulletLines(Tail(items))

\* the answer the Ask handler assembles from the detector's result
EntryPointAnswer(info) ==
    <<"Framework: ", info.framework, "\n", "Entry files:">>
        \o (IF info.entry_files # <<>> THEN BulletLines(info.entry_files)
            ELSE <<"\n", "- (none detected)">>)
        \o (IF info.run_commands # <<>>
            THEN <<"\n", "Run commands:">> \o BulletLines([k \in 1..Len(info.run_commands) |-> <<info.run_commands[k]>>])
            ELSE <<>>)
        \o (IF info.notes # <<>>
            THEN <<"\n", "Notes:">> \o BulletLines([k \in 1..Len(info.notes) |-> <<info.notes[k]>>])
            ELSE <<>>)

\* the routing test of the Ask handler
IsEntryPointQuestion(q) ==
    LET q_lower == Lower(q)
    IN  \/ Contains(q_lower, <<"e", "n", "t", "r", "y", " ", "p", "o", "i", "n", "t">>)
        \/ Contains(q_lower, <<"m", "a", "i", "n", " ", "f", "i", "l", "e">>)
        \/ Contains(q_lower, <<"s", "t", "a", "r", "t">>)

----------------------------------------------------------------------------
(* The session of src/app.py                                                *)

\* src/app.py:32-41
InitialSessionState ==
    [repo_root |-> None, index |-> None, metas |-> None, model |-> None, tree |-> None]

\* `if st.session_state.tree:` and `if st.session_state.repo_root:`
TreeTruthy(ss) == ss.tree # None /\ ss.tree.val # {}

RootTruthy(ss) == ss.repo_root # None /\ ss.repo_root.val # ""

\* the buttons a run of the script puts on the page: all those it reaches
\* before it ends or an exception stops it in the handler of `stop`
Rendered(ss, stop) ==
    {"Analyze Repo"}
        \cup (IF stop # "Analyze Repo" /\ TreeTruthy(ss) /\ RootTruthy(ss)
              THEN {"Explain This Repo"} ELSE {})
        \cup (IF stop \notin {"Analyze Repo", "Explain This Repo"} THEN {"Ask"} ELSE {})

\* the page after the first run of the script: no button clicked
FirstRun ==
    [button |-> "(none)", inputs |-> None, calls |-> <<>>, ui |-> <<>>, wrote |-> {},
     rendered |-> Rendered(InitialSessionState, "(none)"),
     before |-> InitialSessionState]

Urls ==
    {"", "https://github.com/u/code", "https://github.com/u/lib",
     "https://github.com/u/blank", "https://github.com/u/empty"}

Questions ==
    { <<>>,
      <<" ">>,
      <<"W", "h", "e", "r", "e", " ", "i", "s", " ", "t", "h", "e", " ",
        "E", "n", "t", "r", "y", " ", "p", "o", "i", "n", "t", "?">>,
      <<"r", "e", "s", "t", "a", "r", "t">>,
      <<"w", "h", "a", "t", " ", "i", "s", " ", "a">> }

ApiKeys == { <<>>, <<" ">>, <<"s", "k">> }

ExplainQuery == <<"Explain the main app flow and key logic modules">>

TopK == 6

\* an Analyze that adds the new chunks to those the session holds
AnalyzeHandler_ExtendMetas(ss, repo_url) ==
    IF repo_url = ""
    THEN [ss |-> ss, raised |-> FALSE, calls |-> <<>>, wrote |-> {},
          ui |-> <<[kind |-> "warning", body |-> <<"Please enter a valid GitHub URL">>]>>]
    ELSE LET repo_root == clone_repo(repo_url)
             ss1 == [ss EXCEPT !.repo_root = Some(repo_root)]
             ss2 == [ss1 EXCEPT !.tree = Some(build_file_tree(repo_root))]
             b   == build_faiss_index(repo_root)
             cs  == <<[fn |-> "clone_repo"], [fn |-> "build_file_tree"],
                      [fn |-> "build_faiss_index"]>>
         IN  IF b.raised
             THEN [ss |-> ss2, raised |-> TRUE, calls |-> cs, wrote |-> {},
                   ui |-> <<[kind |-> "exception", body |-> <<b.error>>]>>]
             ELSE [ss |-> [ss2 EXCEPT !.index = Some(b.index),
                                      !.metas = IF ss.metas = None THEN Some(b.metas)
                                                ELSE Some(ss.metas.val \o b.metas),
                                      !.model = Some(b.model)],
                   raised |-> FALSE, calls |-> cs, wrote |-> {},
                   ui |-> <<[kind |-> "success", body |-> <<"Repo analyzed + indexed!">>]>>]

\* ---- the handler of "Analyze Repo" (src/app.py:43-60)
AnalyzeHandler(ss, repo_url) ==
    IF repo_url = ""
    THEN [ss |-> ss, raised |-> FALSE, calls |-> <<>>, wrote |-> {},
          ui |-> <<[kind |-> "warning", body |-> <<"Please enter a valid GitHub URL">>]>>]
    ELSE LET repo_root == clone_repo(repo_url)
             ss1 == [ss EXCEPT !.repo_root = Some(repo_root)]
             ss2 == [ss1 EXCEPT !.tree = Some(build_file_tree(repo_root))]
             b   == build_faiss_index(repo_root)
             cs  == <<[fn |-> "clone_repo"], [fn |-> "build_file_tree"],
                      [fn |-> "build_faiss_index"]>>
         IN  IF b.raised
             THEN [ss |-> ss2, raised |-> TRUE, calls |-> cs, wrote |-> {},
                   ui |-> <<[kind |-> "exception", body |-> <<b.error>>]>>]
             ELSE [ss |-> [ss2 EXCEPT !.index = Some(b.index),
                                      !.metas = Some(b.metas),
                                      !.model = Some(b.model)],
                   raised |-> FALSE, calls |-> cs, wrote |-> {},
                   ui |-> <<[kind |-> "success", body |-> <<"Repo analyzed + indexed!">>]>>]

\* ---- the handler of "Ask" (src/app.py:222-278)
AskHandler(ss, q, api_key, reply) ==
    IF ss.index = None
    THEN [ss |-> ss, raised |-> FALSE, calls |-> <<>>, wrote |-> {},
          ui |-> <<[kind |-> "warning", body |-> <<"Analyze a repo first.">>]>>]
    ELSE IF Strip(q) = <<>>
    THEN [ss |-> ss, raised |-> FALSE, calls |-> <<>>, wrote |-> {},
          ui |-> <<[kind |-> "warning", body |-> <<"Type a question.">>]>>]
    ELSE
    LET r  == retrieve(q, ss.index, ss.metas, ss.model, TopK)
        c1 == <<[fn |-> "retrieve", index_set |-> ss.index # None]>>
    IN  IF r.raised \/ ss.repo_root = None
        THEN [ss |-> ss, raised |-> TRUE, calls |-> c1, wrote |-> {},
              ui |-> <<[kind |-> "exception", body |-> <<"TypeError or AttributeError">>]>>]
        ELSE
        LET cites0 == format_citations(r.chunks, ss.repo_root.val)
            entry  == IsEntryPointQuestion(q)
            info   == detect_entrypoints(ss.repo_root.val)
            ans    == IF entry THEN [raised |-> FALSE, text |-> EntryPointAnswer(info)]
                      ELSE IF Strip(api_key) # <<>> THEN llm_answer(q, r.chunks, api_key, reply)
                      ELSE [raised |-> FALSE, text |-> basic_answer(q, r.chunks)]
            cites  == IF entry /\ info.entry_files # <<>> THEN info.entry_files ELSE cites0
            c2     == c1 \o <<[fn |-> "format_citations"]>>
                         \o (IF entry THEN <<[fn |-> "detect_entrypoints"]>>
                             ELSE IF Strip(api_key) # <<>>
                             THEN <<[fn |-> "llm_answer", reply |-> reply.kind,
                                     returned |-> IF ans.raised THEN None
                                                  ELSE Some(ans.text)]>>
                             ELSE <<[fn |-> "basic_answer"]>>)
        IN  IF ans.raised
            THEN [ss |-> ss, raised |-> TRUE, calls |-> c2, wrote |-> {},
                  ui |-> <<[kind |-> "exception", body |-> <<ans.error>>]>>]
            ELSE IF StartsWith(ans.text, API_ERROR_PREFIX)
            THEN [ss |-> ss, raised |-> FALSE, calls |-> c2, wrote |-> {},
                  ui |-> <<[kind |-> "error",
                            body |-> Strip(Remove(ans.text, API_ERROR_PREFIX))]>>]
            ELSE [ss |-> ss, raised |-> FALSE, calls |-> c2, wrote |-> {},
                  ui |-> <<[kind |-> "write", body |-> ans.text],
                           [kind |-> "markdown", body |-> <<"**Citations:**">>]>>
                         \o [k \in 1..Len(cites) |-> [kind |-> "citation", body |-> cites[k]]]]

\* an Explain that tests the API prefix alone before it writes the file
ExplainHandler_ApiPrefixOnly(ss, provider, api_key, reply) ==
    IF provider = "Claude (Anthropic)" /\ Strip(api_key) = <<>>
    THEN [ss |-> ss, raised |-> FALSE, calls |-> <<>>, wrote |-> {},
          ui |-> <<[kind |-> "warning",
                    body |-> <<"Paste your Claude API key to use Claude provider.">>]>>]
    ELSE
    LET c1 == <<[fn |-> "detect_entrypoints"], [fn |-> "build_route_component_map"],
                [fn |-> "generate_files_overview"],
                [fn |-> "retrieve", index_set |-> ss.index # None]>>
        r  == retrieve(ExplainQuery, ss.index, ss.metas, ss.model, TopK)
    IN  IF r.raised
        THEN [ss |-> ss, raised |-> TRUE, calls |-> c1, wrote |-> {},
              ui |-> <<[kind |-> "exception", body |-> <<r.error>>]>>]
        ELSE
        LET md == generate_markdown(provider, <<"prompt">>, Some(api_key), reply)
            c2 == c1 \o <<[fn |-> "generate_markdown", reply |-> reply.kind,
                           returned |-> IF md.raised THEN None ELSE Some(md.text)]>>
        IN  IF md.raised
            THEN [ss |-> ss, raised |-> TRUE, calls |-> c2, wrote |-> {},
                  ui |-> <<[kind |-> "exception", body |-> <<md.error>>]>>]
            ELSE IF StartsWith(md.text, API_ERROR_PREFIX)
            THEN [ss |-> ss, raised |-> FALSE, calls |-> c2, wrote |-> {},
                  ui |-> <<[kind |-> "error",
                            body |-> Strip(Remove(md.text, API_ERROR_PREFIX))]>>]
            ELSE [ss |-> ss, raised |-> FALSE, calls |-> c2,
                  wrote |-> {"REPO_EXPLAINER.md"},
                  ui |-> <<[kind |-> "success", body |-> <<"Generated: REPO_EXPLAINER.md">>],
                           [kind |-> "write", body |-> md.text]>>]

\* ---- the handler of "Explain This Repo" (src/app.py:146-193)
ExplainHandler(ss, provider, api_key, reply) ==
    IF provider = "Claude (Anthropic)" /\ Strip(api_key) = <<>>
    THEN [ss |-> ss, raised |-> FALSE, calls |-> <<>>, wrote |-> {},
          ui |-> <<[kind |-> "warning",
                    body |-> <<"Paste your Claude API key to use Claude provider.">>]>>]
    ELSE
    LET c1 == <<[fn |-> "detect_entrypoints"], [fn |-> "build_route_component_map"],
                [fn |-> "generate_files_overview"],
                [fn |-> "retrieve", index_set |-> ss.index # None]>>
        r  == retrieve(ExplainQuery, ss.index, ss.metas, ss.model, TopK)
    IN  IF r.raised
        THEN [ss |-> ss, raised |-> TRUE, calls |-> c1, wrote |-> {},
              ui |-> <<[kind |-> "exception", body |-> <<r.error>>]>>]
        ELSE
        LET md == generate_markdown(provider, <<"prompt">>, Some(api_key), reply)
            c2 == c1 \o <<[fn |-> "generate_markdown", reply |-> reply.kind,
                           returned |-> IF md.raised THEN None ELSE Some(md.text)]>>
        IN  IF md.raised
            THEN [ss |-> ss, raised |-> TRUE, calls |-> c2, wrote |-> {},
                  ui |-> <<[kind |-> "exception", body |-> <<md.error>>]>>]
            ELSE IF StartsWith(md.text, API_ERROR_PREFIX)
            THEN [ss |-> ss, raised |-> FALSE, calls |-> c2, wrote |-> {},
                  ui |-> <<[kind |-> "error",
                            body |-> Strip(Remove(md.text, API_ERROR_PREFIX))]>>]
            ELSE IF StartsWith(md.text, OLLAMA_ERROR_PREFIX)
            THEN [ss |-> ss, raised |-> FALSE, calls |-> c2, wrote |-> {},
                  ui |-> <<[kind |-> "error",
                            body |-> Strip(Remove(md.text, OLLAMA_ERROR_PREFIX))]>>]
            ELSE [ss |-> ss, raised |-> FALSE, calls |-> c2,
                  wrote |-> {"REPO_EXPLAINER.md"},
                  ui |-> <<[kind |-> "success", body |-> <<"Generated: REPO_EXPLAINER.md">>],
                           [kind |-> "write", body |-> md.text]>>]

\* one run of the script with `button` clicked and handler result h
ScriptRun(button, inputs, h) ==
    /\ session_state' = h.ss
    /\ run' = [button |-> button, inputs |-> inputs, calls |-> h.calls, ui |-> h.ui,
               wrote |-> h.wrote,
               rendered |-> Rendered(h.ss, IF h.raised THEN button ELSE "(none)"),
               before |-> session_state]

SessionInit ==
    /\ session_state = InitialSessionState
    /\ run = FirstRun
    /\ lines = <<>>
    /\ lines_per_chunk = DefaultLinesPerChunk
    /\ overlap = DefaultOverlap
    /\ i = 0
    /\ start = Unbound
    /\ end = Unbound
    /\ chunks = <<>>
    /\ pc = "idle"
    /\ build = NoBuild
    /\ call = NoCall

\* a widget is edited: the script runs with no button clicked
Rerun ==
    /\ session_state' = session_state
    /\ run' = [FirstRun EXCEPT !.rendered = Rendered(session_state, "(none)"),
                             !.before = session_state]
    /\ UNCHANGED <<chunkVars, buildVars, callVars>>

AnalyzeRepo ==
    /\ "Analyze Repo" \in run.rendered
    /\ \E repo_url \in Urls :
          ScriptRun("Analyze Repo", [repo_url |-> repo_url],
                    AnalyzeHandler(session_state, repo_url))
    /\ UNCHANGED <<chunkVars, buildVars, callVars>>

Ask ==
    /\ "Ask" \in run.rendered
    /\ \E q \in Questions, api_key \in ApiKeys, reply \in ClaudeReplies :
          ScriptRun("Ask", [q |-> q, api_key |-> api_key],
                    AskHandler(session_state, q, api_key, reply))
    /\ UNCHANGED <<chunkVars, buildVars, callVars>>

ExplainThisRepo ==
    /\ "Explain This Repo" \in run.rendered
    /\ \E provider \in Providers, api_key \in ApiKeys :
          \E reply \in (IF provider = "Local (Ollama)" THEN OllamaReplies ELSE ClaudeReplies) :
              ScriptRun("Explain This Repo", [provider |-> provider, api_key |-> api_key],
                        ExplainHandler(session_state, provider, api_key, reply))
    /\ UNCHANGED <<chunkVars, buildVars, callVars>>

SessionNext == Rerun \/ AnalyzeRepo \/ Ask \/ ExplainThisRepo

SessionSpec == SessionInit /\ [][SessionNext]_vars

----------------------------------------------------------------------------
(* The Chunker as a state machine *)

ChunkInit ==
    /\ \/ /\ lines \in SeqsUpTo(LineVals, MaxLines)
          /\ lines_per_chunk \in 1..MaxWindow
          /\ overlap \in 0..MaxOverlap
       \/ /\ lines = ScenarioLines
          /\ lines_per_chunk = DefaultLinesPerChunk
          /\ overlap = DefaultOverlap
    /\ i = 0
    /\ start = Unbound
    /\ end = Unbound
    /\ chunks = <<>>
    /\ pc = "loop"
    /\ session_state = InitialSessionState
    /\ run = FirstRun
    /\ build = NoBuild
    /\ call = NoCall

\* `while i < n` holds: enter the body
LoopTest ==
    /\ pc = "loop"
    /\ i < Len(lines)
    /\ pc' = "body"
    /\ UNCHANGED <<lines, lines_per_chunk, overlap, i, start, end, chunks>>
    /\ UNCHANGED <<sessionVars, buildVars, callVars>>

\* the body of the loop: one window, the advance of the cursor, the break
LoopIter ==
    /\ pc = "body"
    /\ LET r == LoopBody(lines, lines_per_chunk, overlap, i, chunks)
       IN  /\ Len(r.chunks) <= MaxChunks
           /\ start' = r.start
           /\ end' = r.end
           /\ i' = r.i
           /\ chunks' = r.chunks
           /\ pc' = IF r.brk THEN "done" ELSE "loop"
    /\ UNCHANGED <<lines, lines_per_chunk, overlap>>
    /\ UNCHANGED <<sessionVars, buildVars, callVars>>

\* `while i < n` fails: return chunks
LoopExit ==
    /\ pc = "loop"
    /\ ~(i < Len(lines))
    /\ pc' = "done"
    /\ UNCHANGED <<lines, lines_per_chunk, overlap, i, start, end, chunks>>
    /\ UNCHANGED <<sessionVars, buildVars, callVars>>

\* the model stops following a run whose list outgrows MaxChunks
LoopCapped ==
    /\ pc = "body"
    /\ Len(LoopBody(lines, lines_per_chunk, overlap, i, chunks).chunks) > MaxChunks
    /\ pc' = "capped"
    /\ UNCHANGED <<lines, lines_per_chunk, overlap, i, start, end, chunks>>
    /\ UNCHANGED <<sessionVars, buildVars, callVars>>

ChunkNext == LoopTest \/ LoopIter \/ LoopExit \/ LoopCapped

ChunkSpec == ChunkInit /\ [][ChunkNext]_vars

\* the interpreter keeps executing a running call
ChunkFairSpec == ChunkSpec /\ WF_vars(ChunkNext)

----------------------------------------------------------------------------
(* build_faiss_index as a state machine *)

MaxFiles == 3

\* the checkouts of https://github.com/u/code and https://github.com/u/build
BuildRoots == {"data/repos/code", "data/repos/build"}

\* a path split at os.sep
PathSegments(path) ==
    CASE path = "data/repos/code" -> <<"data", "repos", "code">>
      [] path = "data/repos/build" -> <<"data", "repos", "build">>
      [] path = "data/repos/lib" -> <<"data", "repos", "lib">>
      [] path = "data/repos/blank" -> <<"data", "repos", "blank">>
      [] OTHER -> <<"data", "repos", "empty">>

\* the files a repository may hold; a repository is a set of at most
\* MaxFiles of them, its directories are those of their paths
FileCatalog ==
    << File(<<>>, <<"main", ".py">>, 40, <<"a", "", "a">>),
       File(<<>>, <<"logo", ".PNG">>, 900, <<"a">>),
       File(<<>>, <<"build">>, 10, <<"a">>),
       File(<<"src">>, <<"util", ".py">>, MaxFileSize, <<"a", "a">>),
       File(<<"src">>, <<"huge", ".py">>, MaxFileSize + 1, <<"a">>),
       File(<<"node_modules", "x">>, <<"x", ".js">>, 30, <<"a">>),
       File(<<"src", "dist">>, <<"d", ".py">>, 20, <<"a">>),
       File(<<".bin">>, <<"tool", ".py">>, 20, <<"a">>),
       File(<<>>, <<"blank", ".md">>, 3, <<" ", "">>),
       [File(<<>>, <<"secret", ".py">>, 20, <<"a">>) EXCEPT !.readable = FALSE],
       [File(<<>>, <<"gone", ".py">>, 0, <<"a">>) EXCEPT !.statable = FALSE],
       File(<<"src">>, <<"big", ".py">>, 500, ScenarioLines) >>

Trees == {S \in SUBSET (1..Len(FileCatalog)) : Cardinality(S) <= MaxFiles}

\* os.walk's `files` of directory d, in the order of the catalog
FilesIn(fs, d) ==
    LET ks == SelectSeq([k \in 1..Len(FileCatalog) |-> k],
                        LAMBDA k : k \in fs /\ FileCatalog[k].dirs = d)
    IN  [j \in 1..Len(ks) |-> FileCatalog[ks[j]]]

\* os.walk's `dirs` of directory d
DirsIn(fs, d) ==
    {FileCatalog[k].dirs[Len(d) + 1] : k \in
        {m \in fs : /\ Len(FileCatalog[m].dirs) > Len(d)
                    /\ SubSeq(FileCatalog[m].dirs, 1, Len(d)) = d}}

\* a walk that descends into every directory
PruneDirs_KeepAll(ds) == ds

\* dirs[:] = [d for d in dirs if not should_ignore(d)]
PruneDirs(ds) == {d \in ds : ~should_ignore(<<d>>)}

BuildInit ==
    /\ \E repo_path \in BuildRoots, fs \in Trees :
          build = [pc |-> "walk", repo_path |-> repo_path, fs |-> fs,
                   todo |-> {<<>>}, visited |-> {}, code_files |-> <<>>,
                   k |-> 0, metas |-> <<>>, texts |-> <<>>, result |-> None]
    /\ call = NoCall
    /\ session_state = InitialSessionState
    /\ run = FirstRun
    /\ lines = <<>>
    /\ lines_per_chunk = DefaultLinesPerChunk
    /\ overlap = DefaultOverlap
    /\ i = 0
    /\ start = Unbound
    /\ end = Unbound
    /\ chunks = <<>>
    /\ pc = "idle"

\* one iteration of `for root, dirs, files in os.walk(repo_path)`; the order
\* in which os.walk takes the pending directories is the file system's
WalkDir ==
    /\ build.pc = "walk"
    /\ \E d \in build.todo :
          LET kept == PruneDirs(DirsIn(build.fs, d))
              here == FilesIn(build.fs, d)
              out  == SelectSeq(here, KeepFile)
          IN  build' = [build EXCEPT
                  !.todo = (@ \ {d}) \cup {d \o <<s>> : s \in kept},
                  !.visited = @ \cup {d},
                  !.code_files = @ \o [j \in 1..Len(out) |->
                                          [root |-> build.repo_path, file |-> out[j]]]]
    /\ UNCHANGED <<chunkVars, sessionVars, callVars>>

\* os.walk is exhausted: collect_code_files returns
Collected ==
    /\ build.pc = "walk"
    /\ build.todo = {}
    /\ build' = [build EXCEPT !.pc = "files"]
    /\ UNCHANGED <<chunkVars, sessionVars, callVars>>

\* one iteration of `for fp in code_files`
EmbedFile ==
    /\ build.pc = "files"
    /\ build.k < Len(build.code_files)
    /\ LET acc == BuildFile([metas |-> build.metas, texts |-> build.texts],
                            build.code_files[build.k + 1])
       IN  build' = [build EXCEPT !.k = @ + 1, !.metas = acc.metas, !.texts = acc.texts]
    /\ UNCHANGED <<chunkVars, sessionVars, callVars>>

\* the loop is over: raise, or embed the texts and return
BuildReturn ==
    /\ build.pc = "files"
    /\ build.k = Len(build.code_files)
    /\ build' = [build EXCEPT
            !.pc = "done",
            !.result = Some(BuildResult([metas |-> build.metas, texts |-> build.texts]))]
    /\ UNCHANGED <<chunkVars, sessionVars, callVars>>

BuildNext == WalkDir \/ Collected \/ EmbedFile \/ BuildReturn

BuildSpec == BuildInit /\ [][BuildNext]_vars

----------------------------------------------------------------------------
(* retrieve and format_citations, called on bounded inputs *)

MaxVectors == 3

MaxTopK == 4

MaxCited == 4

\* the embeddings an index may hold
EmbedVals == 0..2

\* metas of length N: one chunk per file of the lib checkout
MetasOf(N) ==
    [k \in 1..N |->
        [file_path  |-> [root |-> "data/repos/lib", dirs |-> <<"pkg">>,
                         name |-> <<"m", LibStems[k], ".py">>],
         start_line |-> 1,
         end_line   |-> Len(LibLines[k]),
         text       |-> LibLines[k]]]

\* chunks to cite: two windows of one file, a window of another, and a
\* chunk that differs from the first in its text alone
CitedChunks ==
    LET c(nm, a, b, t) == [file_path  |-> [root |-> "data/repos/lib", dirs |-> <<"pkg">>,
                                           name |-> nm],
                           start_line |-> a, end_line |-> b, text |-> t]
    IN  { c(<<"m", "1", ".py">>, 1, 2, <<"a", "a">>),
          c(<<"m", "1", ".py">>, 2, 3, <<"a", "a">>),
          c(<<"m", "2", ".py">>, 1, 2, <<"a", "a">>),
          c(<<"m", "1", ".py">>, 1, 2, <<"a", "">>) }

\* the provider names generate_markdown may be given: the two of the
\* selectbox, and names it does not know
ProviderNames == Providers \cup {"OpenAI", ""}

\* the api_key argument: absent (None), or a text
KeyArgs == {None} \cup {Some(k) : k \in ApiKeys}

CallInit ==
    /\ \/ \E question \in Questions, top_k \in 1..MaxTopK,
             vectors \in SeqsUpTo(EmbedVals, MaxVectors) :
             call = [fn |-> "retrieve", question |-> question,
                     index |-> [vectors |-> vectors],
                     metas |-> MetasOf(Len(vectors)),
                     top_k |-> top_k, ret |-> None]
       \/ \E cs \in SeqsUpTo(CitedChunks, MaxCited),
             repo_root \in {"data/repos/lib", "data/repos/code"} :
             call = [fn |-> "format_citations", chunks |-> cs,
                     repo_root |-> repo_root, ret |-> None]
       \/ \E provider \in ProviderNames, api_key \in KeyArgs :
             \E reply \in (IF provider = "Local (Ollama)" THEN OllamaReplies
                           ELSE ClaudeReplies) :
                call = [fn |-> "generate_markdown", provider |-> provider,
                        api_key |-> api_key, reply |-> reply, ret |-> None]
       \/ \E reply \in OllamaReplies :
             call = [fn |-> "ollama_generate", reply |-> reply, ret |-> None]
       \/ \E fn \in {"llm_answer", "claude_generate", "claude_generate_markdown"},
             api_key \in ApiKeys, reply \in ClaudeReplies :
             call = [fn |-> fn, api_key |-> api_key, reply |-> reply, ret |-> None]
    /\ build = NoBuild
    /\ session_state = InitialSessionState
    /\ run = FirstRun
    /\ lines = <<>>
    /\ lines_per_chunk = DefaultLinesPerChunk
    /\ overlap = DefaultOverlap
    /\ i = 0
    /\ start = Unbound
    /\ end = Unbound
    /\ chunks = <<>>
    /\ pc = "idle"

CallRetrieve ==
    /\ call.fn = "retrieve"
    /\ call.ret = None
    /\ call' = [call EXCEPT !.ret =
                   Some(retrieve(call.question, Some(call.index), Some(call.metas),
                                 Some(ModelName), call.top_k))]
    /\ UNCHANGED <<chunkVars, sessionVars, buildVars>>

CallFormatCitations ==
    /\ call.fn = "format_citations"
    /\ call.ret = None
    /\ call' = [call EXCEPT !.ret = Some(format_citations(call.chunks, call.repo_root))]
    /\ UNCHANGED <<chunkVars, sessionVars, buildVars>>

CallGenerateMarkdown ==
    /\ call.fn = "generate_markdown"
    /\ call.ret = None
    /\ call' = [call EXCEPT !.ret =
                   Some(generate_markdown(call.provider, <<"prompt">>, call.api_key,
                                          call.reply))]
    /\ UNCHANGED <<chunkVars, sessionVars, buildVars>>

CallOllamaGenerate ==
    /\ call.fn = "ollama_generate"
    /\ call.ret = None
    /\ call' = [call EXCEPT !.ret = Some(ollama_generate(<<"prompt">>, call.reply))]
    /\ UNCHANGED <<chunkVars, sessionVars, buildVars>>

CallLlmAnswer ==
    /\ call.fn = "llm_answer"
    /\ call.ret = None
    /\ call' = [call EXCEPT !.ret =
                   Some(llm_answer(<<"q">>, <<>>, call.api_key, call.reply))]
    /\ UNCHANGED <<chunkVars, sessionVars, buildVars>>

CallClaudeGenerate ==
    /\ call.fn = "claude_generate"
    /\ call.ret = None
    /\ call' = [call EXCEPT !.ret =
                   Some(claude_generate(<<"prompt">>, call.api_key, call.reply))]
    /\ UNCHANGED <<chunkVars, sessionVars, buildVars>>

CallClaudeGenerateMarkdown ==
    /\ call.fn = "claude_generate_markdown"
    /\ call.ret = None
    /\ call' = [call EXCEPT !.ret =
                   Some(claude_generate_markdown(<<"prompt">>, call.api_key, call.reply))]
    /\ UNCHANGED <<chunkVars, sessionVars, buildVars>>

CallNext ==
    \/ CallRetrieve
    \/ CallFormatCitations
    \/ CallGenerateMarkdown
    \/ CallOllamaGenerate
    \/ CallLlmAnswer
    \/ CallClaudeGenerate
    \/ CallClaudeGenerateMarkdown

CallSpec == CallInit /\ [][CallNext]_vars

----------------------------------------------------------------------------
(* Properties of the session *)

Called(fn) == \E k \in 1..Len(run.calls) : run.calls[k].fn = fn

Shown(kind) == \E k \in 1..Len(run.ui) : run.ui[k].kind = kind

\* the last run was an Analyze that build_faiss_index ended with the
\* empty-corpus error
AnalyzeFailedEmptyCorpus ==
    /\ run.button = "Analyze Repo"
    /\ Called("build_faiss_index")
    /\ Shown("exception")

\* C2: after an Analyze action that fails with the empty-corpus error the
\* session's index and metadata are unset, also when an earlier Analyze of
\* the session succeeded.
C2_FailedAnalyzeLeavesIndexUnset ==
    AnalyzeFailedEmptyCorpus
        => (session_state.index = None /\ session_state.metas = None)

\* C3: in every reachable session state, every call of retrieve made by the
\* last action was given an index set by a completed build.
C3_RetrieveOnlyWithBuiltIndex ==
    \A k \in 1..Len(run.calls) :
        run.calls[k].fn = "retrieve" => run.calls[k].index_set

\* C4: an Ask action on an entry-point question, answered by the detector,
\* does not invoke retrieve.
C4_EntryPointQuestionSkipsRetrieve ==
    (run.button = "Ask" /\ Called("detect_entrypoints")
        /\ IsEntryPointQuestion(run.inputs.q))
        => ~Called("retrieve")

\* C5: when the provider call of an Ask action returns a sentinel-prefixed
\* string, the page shows the sentinel-derived message in place of the
\* answer and still shows the citations computed from retrieval.
C5_ProviderFailureStillShowsCitations ==
    (run.button = "Ask" /\ Called("llm_answer") /\ Shown("error"))
        => (~Shown("write") /\ Shown("markdown") /\ Shown("citation"))

----------------------------------------------------------------------------
(* Properties of the Chunker *)

n == Len(lines)

Returned == pc = "done"

LastChunk == chunks[Len(chunks)]

Covers(c, k) == c.start_line <= k /\ k <= c.end_line

\* the window cut by the last iteration holds a non-blank line
LastWindowNonBlank == start # Unbound /\ StripLines(Slice(lines, start, end)) # <<>>

\* C1: chunk_by_lines terminates for every text and every window/overlap
\* configuration, overlap >= lines_per_chunk included: every run the model
\* follows (it leaves a run whose list outgrows MaxChunks) ends in a return.
C1_Terminates == <>(pc \in {"done", "capped"})

\* C6 as claimed: for every text of n >= 1 lines, the last chunk returned has
\* end_line = n.
C6_Original_LastChunkEndsAtN ==
    (Returned /\ n >= 1 /\ chunks # <<>>) => LastChunk.end_line = n

\* C6 amended: when chunk_by_lines returns on a text of n >= 1 lines and the
\* terminal window (the one whose end is n) holds a non-blank line, the last
\* chunk returned has end_line = n.
C6_LastChunkEndsAtN ==
    (Returned /\ n >= 1 /\ LastWindowNonBlank)
        => (chunks # <<>> /\ LastChunk.end_line = n)

C6_Witness ==
    /\ Returned /\ LastWindowNonBlank
    /\ Len(chunks) >= 2 /\ LastChunk.end_line = n
    /\ \E k \in 1..n : IsBlankLine(lines[k])

\* C7 as claimed: every line number in 1..n lies inside the range of at least
\* one returned chunk.
C7_Original_NoLineSkipped ==
    Returned => \A k \in 1..n : \E j \in 1..Len(chunks) : Covers(chunks[j], k)

\* C7 amended: with lines_per_chunk >= 1 and overlap >= 0, every non-blank
\* line of the input lies inside the range of at least one returned chunk
\* (only lines of whitespace-only windows are left out).
C7_NoNonBlankLineSkipped ==
    Returned => \A k \in 1..n :
        ~IsBlankLine(lines[k]) => \E j \in 1..Len(chunks) : Covers(chunks[j], k)

C7_Witness ==
    /\ Returned /\ Len(chunks) >= 2
    /\ \E k \in 1..n : IsBlankLine(lines[k])
                        /\ \A j \in 1..Len(chunks) : ~Covers(chunks[j], k)

\* C8: every chunk in the list has 1 <= start_line <= end_line <= n, and the
\* list is in non-decreasing start_line order.
C8_RangesOrdered ==
    /\ \A j \in 1..Len(chunks) :
          /\ 1 <= chunks[j].start_line
          /\ chunks[j].start_line <= chunks[j].end_line
          /\ chunks[j].end_line <= n
    /\ \A j \in 1..(Len(chunks) - 1) :
          chunks[j].start_line <= chunks[j + 1].start_line

C8_Witness ==
    /\ Returned /\ Len(chunks) >= 3
    /\ chunks[1].start_line < chunks[2].start_line
    /\ chunks[2].start_line <= chunks[1].end_line

\* C9 as claimed: an input with fewer lines than one window returns exactly
\* one chunk, spanning lines 1..n.
C9_Original_ShortInputOneChunk ==
    (Returned /\ n < lines_per_chunk)
        => (Len(chunks) = 1 /\ chunks[1].start_line = 1 /\ chunks[1].end_line = n)

\* C9 amended: an input with fewer lines than one window and at least one
\* non-blank line returns exactly one chunk, spanning lines 1..n; an input
\* with no non-blank line (n = 0 included) returns no chunk.
C9_ShortInputOneChunk ==
    (Returned /\ n < lines_per_chunk)
        => IF \E k \in 1..n : ~IsBlankLine(lines[k])
           THEN Len(chunks) = 1 /\ chunks[1].start_line = 1 /\ chunks[1].end_line = n
           ELSE chunks = <<>>

C9_Witness ==
    /\ Returned /\ n < lines_per_chunk /\ n >= 2
    /\ IsBlankLine(lines[n]) /\ Len(chunks) = 1

\* the windows C10 describes: window j = 0, 1, ... spans lines
\* j*(W-V)+1 .. min(j*(W-V)+W, n); the last is the first whose end reaches n
WindowStart(j) == j * (lines_per_chunk - overlap) + 1

WindowEnd(j) == Min(j * (lines_per_chunk - overlap) + lines_per_chunk, n)

WindowCount ==
    IF n = 0 THEN 0
    ELSE 1 + CHOOSE j \in 0..n : WindowEnd(j) = n /\ \A m \in 0..(j - 1) : WindowEnd(m) < n

\* C10: with overlap < lines_per_chunk on n non-blank lines the returned
\* chunks are exactly the windows j*(W-V)+1 .. min(j*(W-V)+W, n), consecutive
\* windows share exactly V lines, the last window is the first whose end
\* reaches n; 250 lines with W=200, V=30 give lines 1-200 and 171-250.
C10_Windows ==
    (Returned /\ overlap < lines_per_chunk /\ \A k \in 1..n : ~IsBlankLine(lines[k]))
        => /\ Len(chunks) = WindowCount
           /\ \A j \in 1..Len(chunks) :
                 /\ chunks[j].start_line = WindowStart(j - 1)
                 /\ chunks[j].end_line = WindowEnd(j - 1)
                 /\ chunks[j].text = SubSeq(lines, WindowStart(j - 1), WindowEnd(j - 1))
           /\ \A j \in 1..(Len(chunks) - 1) :
                 chunks[j].end_line - chunks[j + 1].start_line + 1 = overlap
           /\ (n = 250 /\ lines_per_chunk = 200 /\ overlap = 30)
                 => /\ Len(chunks) = 2
                    /\ chunks[1].start_line = 1   /\ chunks[1].end_line = 200
                    /\ chunks[2].start_line = 171 /\ chunks[2].end_line = 250

C10_Witness ==
    /\ Returned /\ lines = ScenarioLines
    /\ lines_per_chunk = DefaultLinesPerChunk /\ overlap = DefaultOverlap
    /\ Len(chunks) = 2

----------------------------------------------------------------------------
(* Properties of collect_code_files *)

\* collect_code_files has returned
Collects == build.pc \in {"files", "done"}

\* the files of the repository on disk
OnDisk == {FileCatalog[k] : k \in build.fs}

CodeFileSet == {build.code_files[j].file : j \in 1..Len(build.code_files)}

\* the name ends with an ignored extension, whatever its case
HasIgnoredExtension(name) ==
    \E ext \in IGNORE_EXTENSIONS : Lower(<<name[Len(name)]>>) = <<ext>>

\* the directories a returned path lies inside: those of the root, then
\* those below it
DirsOfPath(x) == PathSegments(x.root) \o x.file.dirs

\* C11 as stated: no returned path lies inside a directory whose name is in
\* the ignore set, the directories of the walked root included, and no
\* returned file has an ignored extension.
C11_Original_NoIgnoredPath ==
    Collects =>
        \A j \in 1..Len(build.code_files) :
            /\ \A m \in 1..Len(DirsOfPath(build.code_files[j])) :
                  DirsOfPath(build.code_files[j])[m] \notin IGNORE_FOLDERS
            /\ ~HasIgnoredExtension(build.code_files[j].file.name)

\* C11: no returned path lies inside a directory below the walked root whose
\* name is in the ignore set, and no returned file has a name ending with an
\* ignored extension.
C11_NoIgnoredPathBelowRoot ==
    Collects =>
        \A j \in 1..Len(build.code_files) :
            /\ \A m \in 1..Len(build.code_files[j].file.dirs) :
                  build.code_files[j].file.dirs[m] \notin IGNORE_FOLDERS
            /\ ~HasIgnoredExtension(build.code_files[j].file.name)

\* a walk that returned a file while the repository also holds a file below
\* an ignored directory and a file with an ignored extension
C11_Witness ==
    /\ Collects
    /\ build.code_files # <<>>
    /\ \E f \in OnDisk : \E m \in 1..Len(f.dirs) : f.dirs[m] \in IGNORE_FOLDERS
    /\ \E f \in OnDisk : HasIgnoredExtension(f.name)

\* C12 as stated: every stat-able file within the size ceiling whose name has
\* no ignored extension and none of whose directories below the root has an
\* ignored folder name is returned.
C12_EveryUnignoredFileReturned ==
    Collects =>
        \A f \in OnDisk :
            ( /\ f.statable
              /\ f.size <= 2000000
              /\ ~HasIgnoredExtension(f.name)
              /\ \A m \in 1..Len(f.dirs) : f.dirs[m] \notin IGNORE_FOLDERS )
            => f \in CodeFileSet

\* C13: no returned file is larger than 2,000,000 bytes, and a file of
\* 2,000,000 bytes or less that passes the walk, the name test and the stat is
\* returned.
C13_SizeCeiling ==
    Collects =>
        /\ \A f \in CodeFileSet : f.size <= 2000000
        /\ \A f \in OnDisk :
              (Walked(f) /\ ~should_ignore(f.name) /\ f.statable /\ f.size <= 2000000)
                 => f \in CodeFileSet

\* a walk that returned a file of exactly the ceiling and left out a file of
\* one byte more
C13_Witness ==
    /\ Collects
    /\ \E f \in CodeFileSet : f.size = 2000000
    /\ \E f \in OnDisk : f.size = 2000001 /\ f \notin CodeFileSet

----------------------------------------------------------------------------
(* Properties of retrieve and format_citations *)

Retrieved == call.fn = "retrieve" /\ call.ret # None

\* the ids the search reported that are not the sentinel, in its order
NonSentinel == SelectSeq(call.ret.val.ids, LAMBDA idx : idx # -1)

\* C14: on an index and metas of equal length N and top_k = k >= 1, retrieve
\* returns exactly min(k, N) chunks: at most k, fewer than k only if N < k.
C14_ReturnsMinOfKAndN ==
    (Retrieved /\ Len(call.index.vectors) = Len(call.metas) /\ call.top_k >= 1)
        => /\ ~call.ret.val.raised
           /\ Len(call.ret.val.chunks) = Min(call.top_k, Len(call.metas))

\* retrieve returned top_k chunks of an index that holds more
C14_Witness ==
    /\ Retrieved
    /\ Len(call.metas) = 3
    /\ call.top_k = 2
    /\ Len(call.ret.val.chunks) = 2

\* C15: the chunks returned are metas[i] for each non-sentinel id i the search
\* reported, in the order reported, and metas is never read at position -1.
C15_SentinelNeverMapped ==
    Retrieved =>
        /\ ~call.ret.val.raised
        /\ Len(call.ret.val.chunks) = Len(NonSentinel)
        /\ \A j \in 1..Len(NonSentinel) :
              call.ret.val.chunks[j] = call.metas[NonSentinel[j] + 1]
        /\ \A j \in 1..Len(call.ret.val.reads) : call.ret.val.reads[j] # -1

\* the search reported the sentinel and an id, and retrieve returned
C15_Witness ==
    /\ Retrieved
    /\ \E j \in 1..Len(call.ret.val.ids) : call.ret.val.ids[j] = -1
    /\ Len(NonSentinel) >= 2
    /\ NonSentinel[1] > NonSentinel[2]

\* C16: on an index holding zero vectors retrieve returns the empty sequence
\* and does not raise, whatever the query and top_k >= 1.
C16_EmptyIndexReturnsNothing ==
    (Retrieved /\ Len(call.index.vectors) = 0)
        => /\ ~call.ret.val.raised
           /\ call.ret.val.chunks = <<>>

C16_Witness ==
    /\ Retrieved
    /\ call.index.vectors = <<>>
    /\ call.top_k = MaxTopK
    /\ Len(call.ret.val.ids) = MaxTopK

Formatted == call.fn = "format_citations" /\ call.ret # None

\* the display string "{relative_path} (lines {start}-{end})" of chunk j
Display(j) ==
    [rel        |-> RelPath(call.chunks[j].file_path, call.repo_root),
     start_line |-> call.chunks[j].start_line,
     end_line   |-> call.chunks[j].end_line]

\* the first position at which the chunks produce display string d
FirstAt(d) == CHOOSE j \in 1..Len(call.chunks) :
                 Display(j) = d /\ \A m \in 1..(j - 1) : Display(m) # d

\* C17: format_citations returns the distinct display strings of its chunks,
\* each once, ordered by first occurrence; deduplicating its output again
\* changes nothing.
C17_DistinctInFirstOccurrenceOrder ==
    Formatted =>
        LET out == call.ret.val
        IN  /\ \A a, b \in 1..Len(out) : a # b => out[a] # out[b]
            /\ {out[a] : a \in 1..Len(out)} = {Display(j) : j \in 1..Len(call.chunks)}
            /\ \A a, b \in 1..Len(out) : a < b => FirstAt(out[a]) < FirstAt(out[b])
            /\ Unique(out, {}) = out

\* chunks producing [x, y, x, z] gave [x, y, z]
C17_Witness ==
    /\ Formatted
    /\ Len(call.chunks) = 4
    /\ Display(1) = Display(3)
    /\ Cardinality({Display(j) : j \in 1..4}) = 3
    /\ Display(2) # Display(1) /\ Display(4) # Display(1) /\ Display(4) # Display(2)
    /\ call.ret.val = <<Display(1), Display(2), Display(4)>>

----------------------------------------------------------------------------
(* Properties of build_faiss_index *)

Built == build.pc = "done"

\* the text of code file j is empty or whitespace only
OnlyWhitespace(j) ==
    \A m \in 1..Len(read_text_file(build.code_files[j])) :
        read_text_file(build.code_files[j])[m] \in {"", " "}

\* C18: build_faiss_index raises the empty-corpus error when the repository
\* yields no indexable file, and when it yields one file whose content is
\* only whitespace; no index and no metadata is returned.
C18_EmptyCorpusRaises ==
    ( /\ Built
      /\ \/ build.code_files = <<>>
         \/ Len(build.code_files) = 1 /\ OnlyWhitespace(1) )
    => /\ build.result.val.raised
       /\ build.result.val.error = "ValueError: No indexable text found in repo"
       /\ "index" \notin DOMAIN build.result.val
       /\ "metas" \notin DOMAIN build.result.val

\* a build over one readable file of blanks and newlines has raised
C18_Witness ==
    /\ Built
    /\ Len(build.code_files) = 1
    /\ build.code_files[1].file.readable
    /\ build.code_files[1].file.lines # <<>>
    /\ OnlyWhitespace(1)
    /\ build.result.val.raised

\* the path of code file j, as a chunk records it
PathOf(j) ==
    [root |-> build.code_files[j].root,
     dirs |-> build.code_files[j].file.dirs,
     name |-> build.code_files[j].file.name]

\* C19: metas and texts grow in lock-step; after a successful build the index
\* holds len(metas) vectors, vector i is the embedding of metas[i].text, and
\* a skipped file (empty, whitespace-only, unreadable) has no chunk in metas.
C19_IndexAlignedWithMetas ==
    /\ build.pc \in {"files", "done"} =>
          /\ Len(build.metas) = Len(build.texts)
          /\ \A m \in 1..Len(build.metas) : build.metas[m].text = build.texts[m]
    /\ (Built /\ ~build.result.val.raised) =>
          /\ Len(build.result.val.index.vectors) = Len(build.result.val.metas)
          /\ \A m \in 1..Len(build.result.val.metas) :
                build.result.val.index.vectors[m] = Embed(build.result.val.metas[m].text)
          /\ \A j \in 1..Len(build.code_files) :
                OnlyWhitespace(j) =>
                    \A m \in 1..Len(build.result.val.metas) :
                        build.result.val.metas[m].file_path # PathOf(j)

\* a successful build that skipped a file and cut another into two chunks
C19_Witness ==
    /\ Built
    /\ ~build.result.val.raised
    /\ \E j \in 1..Len(build.code_files) : OnlyWhitespace(j)
    /\ \E m \in 1..Len(build.result.val.metas) : build.result.val.metas[m].start_line > 1
    /\ Len(build.result.val.index.vectors) >= 3

----------------------------------------------------------------------------
(* The session's index, metas and model *)

\* the three are those one build of the checkout at root returned
FromBuildOf(root) ==
    /\ ~build_faiss_index(root).raised
    /\ session_state.index = Some(build_faiss_index(root).index)
    /\ session_state.metas = Some(build_faiss_index(root).metas)
    /\ session_state.model = Some(build_faiss_index(root).model)

\* the last run was an Analyze that reached st.success
AnalyzeSucceeded == run.button = "Analyze Repo" /\ Shown("success")

\* C20: index, metas and model are all unset or all those of one build; after
\* a successful Analyze they are those of the build of the repository just
\* analyzed, and every chunk of metas is a chunk of that repository.
C20_IndexMetasModelFromOneBuild ==
    /\ \/ /\ session_state.index = None
          /\ session_state.metas = None
          /\ session_state.model = None
       \/ \E root \in RepoRoots : FromBuildOf(root)
    /\ AnalyzeSucceeded =>
          /\ FromBuildOf(session_state.repo_root.val)
          /\ \A m \in 1..Len(session_state.metas.val) :
                session_state.metas.val[m].file_path.root = session_state.repo_root.val

\* a successful Analyze in a session that held the chunks of another
\* repository
C20_Witness ==
    /\ AnalyzeSucceeded
    /\ run.before.metas # None
    /\ run.before.repo_root # session_state.repo_root
    /\ \E m \in 1..Len(run.before.metas.val) :
          run.before.metas.val[m].file_path.root # session_state.repo_root.val

----------------------------------------------------------------------------
(* Properties of the provider calls made by the session *)

\* the string the Claude functions return for a billing failure
BillingSentinel == API_ERROR_PREFIX \o <<" ">> \o CreditMessage

\* the provider call of the last run returned text t
ProviderReturned(t) ==
    \E k \in 1..Len(run.calls) :
        /\ run.calls[k].fn \in {"llm_answer", "generate_markdown"}
        /\ run.calls[k].returned = Some(t)

\* t without its first Len(p) atoms
DropPrefix(t, p) == SubSeq(t, Len(p) + 1, Len(t))

\* C21: when the provider call of an Ask or Explain action returns the
\* billing-failure sentinel string, the page shows as an error that string
\* without the prefix and trimmed, and does not show it as an answer.
C21_BillingSentinelShownAsError ==
    ProviderReturned(BillingSentinel) =>
        /\ run.ui = <<[kind |-> "error",
                       body |-> Strip(DropPrefix(BillingSentinel, API_ERROR_PREFIX))]>>
        /\ run.ui[1].body = CreditMessage
        /\ ~Shown("write")
        /\ ~Shown("success")
        /\ run.wrote = {}

\* an Explain action whose Claude call returned the billing sentinel
C21_Witness ==
    /\ run.button = "Explain This Repo"
    /\ run.inputs.provider = "Claude (Anthropic)"
    /\ ProviderReturned(BillingSentinel)
    /\ Shown("error")

\* an Ask action whose Claude call returned the billing sentinel
C21_WitnessAsk ==
    /\ run.button = "Ask"
    /\ ProviderReturned(BillingSentinel)
    /\ Shown("error")

----------------------------------------------------------------------------
(* Properties of generate_markdown, ollama_generate and the Claude callers *)

Routed == call.fn = "generate_markdown" /\ call.ret # None

\* t begins with the atoms of p
HasPrefix(t, p) == Len(t) >= Len(p) /\ \A k \in 1..Len(p) : t[k] = p[k]

\* C22: generate_markdown with the provider "Claude (Anthropic)" and an
\* absent or empty api_key returns the sentinel-prefixed missing-credential
\* message and makes no remote call; with a provider name that is neither of
\* the two it returns a sentinel-prefixed message and calls no provider.
C22_MissingKeyOrUnknownProvider ==
    Routed =>
        /\ ( /\ call.provider = "Claude (Anthropic)"
             /\ (call.api_key = None \/ call.api_key = Some(<<>>)) )
           => /\ ~call.ret.val.raised
              /\ call.ret.val.text =
                    <<"[API_ERROR]", " ", "Claude API key is required for this provider.">>
              /\ call.ret.val.requests = 0
        /\ call.provider \notin {"Local (Ollama)", "Claude (Anthropic)"}
           => /\ ~call.ret.val.raised
              /\ HasPrefix(call.ret.val.text, <<"[API_ERROR]">>)
              /\ call.ret.val.requests = 0

\* generate_markdown returned for the Claude provider without a key while the
\* client would have answered
C22_Witness ==
    /\ Routed
    /\ call.provider = "Claude (Anthropic)"
    /\ call.api_key = None
    /\ call.reply.kind = "text"
    /\ call.ret.val.requests = 0

\* ollama_generate has returned or raised
OllamaCalled == call.fn = "ollama_generate" /\ call.ret # None

\* the message ollama_generate returns when requests raises `kind`
OllamaMessage(kind) == ollama_generate(<<"prompt">>, [kind |-> kind]).text

\* C25: ollama_generate does not raise for a connection failure, a timeout
\* or another request failure; each gives a string that starts with the
\* Ollama sentinel prefix, and the messages of the three kinds differ.
C25_OllamaFailuresAreSentinels ==
    ( /\ OllamaCalled
      /\ call.reply.kind \in {"ConnectionError", "ConnectTimeout", "ReadTimeout", "HTTPError"} )
    => /\ ~call.ret.val.raised
       /\ HasPrefix(call.ret.val.text, <<"[OLLAMA_ERROR]">>)
       /\ \A other \in {"ConnectionError", "ReadTimeout", "HTTPError"} \ {call.reply.kind} :
             call.reply.kind \in {"ConnectionError", "ReadTimeout", "HTTPError"}
                => call.ret.val.text # OllamaMessage(other)

\* the request to the local server timed out and ollama_generate returned
C25_Witness ==
    /\ OllamaCalled
    /\ call.reply.kind = "ReadTimeout"
    /\ ~call.ret.val.raised
    /\ call.ret.val.text # <<>>

ClaudeCalled ==
    /\ call.fn \in {"llm_answer", "claude_generate", "claude_generate_markdown"}
    /\ call.ret # None

\* the client raised a bad request whose message reports the credit balance
CreditBadRequest ==
    /\ call.reply.kind = "BadRequestError"
    /\ \E k \in 1..Len(call.reply.msg) : call.reply.msg[k] = "credit balance is too low"

\* C26: llm_answer, claude_generate and claude_generate_markdown call the
\* client once; a bad request that reports a too-low credit balance becomes
\* the sentinel-prefixed string, every other exception of the client is
\* raised to the caller, and a text is returned as it is.
C26_OnlyCreditBadRequestConverted ==
    ClaudeCalled =>
        /\ call.ret.val.requests = 1
        /\ CreditBadRequest
              => ~call.ret.val.raised /\ HasPrefix(call.ret.val.text, <<"[API_ERROR]">>)
        /\ (call.reply.kind # "text" /\ ~CreditBadRequest)
              => call.ret.val.raised /\ call.ret.val.error = call.reply.kind
        /\ call.reply.kind = "text"
              => ~call.ret.val.raised /\ call.ret.val.text = call.reply.text

\* llm_answer raised the bad request of a prompt that is too long
C26_Witness ==
    /\ ClaudeCalled
    /\ call.fn = "llm_answer"
    /\ call.reply.kind = "BadRequestError"
    /\ ~CreditBadRequest
    /\ call.ret.val.raised

----------------------------------------------------------------------------
(* Properties of the walk and of the build on files that cannot be read     *)

\* C23: the walk prunes ignored directory names before it descends: no
\* directory with an ignored name below the root, and no directory below
\* such a directory, is visited or waits to be visited.
C23_IgnoredSubtreesNeverVisited ==
    build.pc # "idle" =>
        \A d \in build.visited \cup build.todo :
            \A m \in 1..Len(d) : d[m] \notin IGNORE_FOLDERS

\* the walk is over, it went into src, and the repository holds a directory
\* below node_modules
C23_Witness ==
    /\ Collects
    /\ <<"src">> \in build.visited
    /\ \E f \in OnDisk : Len(f.dirs) = 2 /\ f.dirs[1] = "node_modules"

\* code_files without the files that cannot be opened
ReadableCodeFiles == SelectSeq(build.code_files, LAMBDA x : x.file.readable)

\* C24: a file whose size cannot be read is not in code_files; a file that
\* cannot be opened reads as the empty text and has no chunk; what the build
\* returns or raises is what it returns or raises without the unreadable
\* files, and the only error it raises is that of the empty corpus.
C24_UnreadableFilesSkipped ==
    /\ Collects => \A f \in OnDisk : ~f.statable => f \notin CodeFileSet
    /\ Built =>
          /\ \A j \in 1..Len(build.code_files) :
                ~build.code_files[j].file.readable
                   => /\ read_text_file(build.code_files[j]) = <<>>
                      /\ \A m \in 1..Len(build.metas) :
                            build.metas[m].file_path # PathOf(j)
          /\ build.result.val =
                BuildResult(BuildLoop(ReadableCodeFiles, [metas |-> <<>>, texts |-> <<>>]))
          /\ build.result.val.raised
                => build.result.val.error = "ValueError: No indexable text found in repo"

\* a build that returned an index for a repository with a file that cannot
\* be opened and a file whose size cannot be read
C24_Witness ==
    /\ Built
    /\ ~build.result.val.raised
    /\ \E f \in OnDisk : ~f.statable
    /\ \E j \in 1..Len(build.code_files) : ~build.code_files[j].file.readable

----------------------------------------------------------------------------
(* The session's repo_root and its index *)

\* C27: whenever the session holds an index, repo_root names the repository
\* the index and the metas were built from.
C27_RepoRootMatchesIndex ==
    session_state.index # None =>
        /\ session_state.repo_root # None
        /\ FromBuildOf(session_state.repo_root.val)
        /\ \A m \in 1..Len(session_state.metas.val) :
              session_state.metas.val[m].file_path.root = session_state.repo_root.val

----------------------------------------------------------------------------
(* The cursor of chunk_by_lines *)

\* the least integer not below a / b, for b > 0
Ceil(a, b) == (a + b - 1) \div b

\* the loop runs at most ceil(n / (W - V)) times and the start lines of the
\* chunks increase strictly
BoundedIterations ==
    (0 <= overlap /\ overlap < lines_per_chunk) =>
        /\ LoopIterations(lines, lines_per_chunk, overlap, 0, <<>>, 0)
              <= Ceil(n, lines_per_chunk - overlap)
        /\ \A j \in 1..(Len(chunks) - 1) :
              chunks[j].start_line < chunks[j + 1].start_line

\* an iteration that is followed by another leaves the cursor larger
CursorIncreases ==
    (pc = "body" /\ pc' = "loop" /\ 0 <= overlap /\ overlap < lines_per_chunk) => i' > i

\* C28: with 0 <= overlap < lines_per_chunk the cursor strictly increases
\* from one iteration to the next, the loop ends after at most
\* ceil(n / (lines_per_chunk - overlap)) iterations, and the start lines
\* returned are strictly increasing.
C28_CursorStrictlyIncreases == [](BoundedIterations) /\ [][CursorIncreases]_vars

\* a call with a positive overlap that returned three chunks after three
\* iterations
C28_Witness ==
    /\ Returned
    /\ 0 < overlap /\ overlap < lines_per_chunk
    /\ LoopIterations(lines, lines_per_chunk, overlap, 0, <<>>, 0) = 3
    /\ Len(chunks) = 3

----------------------------------------------------------------------------
(* The Explain This Repo action and the file it writes *)

Explained == run.button = "Explain This Repo"

\* the calls of generate_markdown of the last run that returned a text
MarkdownCalls ==
    {k \in 1..Len(run.calls) :
        run.calls[k].fn = "generate_markdown" /\ run.calls[k].returned # None}

Sentinel(t) == HasPrefix(t, <<"[API_ERROR]">>) \/ HasPrefix(t, <<"[OLLAMA_ERROR]">>)

\* every atom of the key is a blank
BlankKey == \A k \in 1..Len(run.inputs.api_key) : run.inputs.api_key[k] = " "

\* C29: an Explain action writes REPO_EXPLAINER.md exactly when
\* generate_markdown returned a text that starts with neither sentinel
\* prefix; with the Claude provider and a blank key, or a sentinel-prefixed
\* text, nothing is written and index, metas, model and repo_root stay.
C29_ExplainWritesIffNoSentinel ==
    Explained =>
        /\ ("REPO_EXPLAINER.md" \in run.wrote)
              <=> (\E k \in MarkdownCalls : ~Sentinel(run.calls[k].returned.val))
        /\ ( \/ run.inputs.provider = "Claude (Anthropic)" /\ BlankKey
             \/ \E k \in MarkdownCalls : Sentinel(run.calls[k].returned.val) )
           => /\ run.wrote = {}
              /\ session_state.index = run.before.index
              /\ session_state.metas = run.before.metas
              /\ session_state.model = run.before.model
              /\ session_state.repo_root = run.before.repo_root

\* an Explain with the local provider whose request could not connect
C29_Witness ==
    /\ Explained
    /\ run.inputs.provider = "Local (Ollama)"
    /\ \E k \in MarkdownCalls : HasPrefix(run.calls[k].returned.val, <<"[OLLAMA_ERROR]">>)
    /\ Shown("error")
    /\ run.wrote = {}

\* an Explain that wrote the file
C29_WitnessWritten ==
    /\ Explained
    /\ "REPO_EXPLAINER.md" \in run.wrote
    /\ \E k \in MarkdownCalls : ~Sentinel(run.calls[k].returned.val)

====
